---------------------------- MODULE Spec2Model ----------------------------
(***************************************************************************)
(* Model of the messaging micro-service's real-time core:                  *)
(*   app/websockets/manager.py  ConnectionManager (the presence registry)  *)
(*   app/routers/messages.py    send_message and websocket_endpoint        *)
(*   app/services/message_service.py  create_message, get_conversation_messages *)
(* Coroutines run on one asyncio event loop: the code between two awaits   *)
(* is atomic, so every action below runs one coroutine from the await it   *)
(* is suspended on to the next await it reaches.                           *)
(***************************************************************************)
EXTENDS Naturals, Sequences, FiniteSets

NumUsers == 2
NumHandles == 3
NumMsgs == 2
MaxPosts == 1
NumCreates == 3
NumReads == 1
NumDbUsers == 3
MaxCalls == 4
MaxCallHandles == 2

Users == 1..NumUsers
Handles == 1..NumHandles
Msgs == 1..NumMsgs
Creates == 1..NumCreates
Reads == 1..NumReads
DbUsers == 1..NumDbUsers
CallHandles == 1..MaxCallHandles

VARIABLES
    active_connections, \* manager.active_connections, a dict in insertion order
    closed,             \* websockets whose transport is closed: a send on them raises
    ep,                 \* websocket_endpoint coroutine of each websocket
    bc,                 \* the 'online' broadcast awaited inside connect, per websocket
    tasks,              \* 'offline' broadcasts started with asyncio.create_task
    req,                \* send_message request handler of each message
    status,             \* persisted Message.status of each message
    calls,              \* calls made by the direct driver of the manager (SpecManager)
    log,                \* what the direct driver of send_personal_message saw, in order
    conversations,      \* rows of the conversations table, in insertion order
    cm,                 \* create_message coroutine of each request (SpecConversations)
    gm                  \* get_messages request handler of each request (SpecMessages)

vars == <<active_connections, closed, ep, bc, tasks, req, status, calls,
          log, conversations, cm, gm>>

---------------------------------------------------------------------------
(* Python lists and the insertion-ordered dict.                            *)

Range(s) == {s[i] : i \in 1..Len(s)}

Count(s, x) == Cardinality({i \in 1..Len(s) : s[i] = x})

FirstIndex(s, x) == CHOOSE i \in 1..Len(s) : s[i] = x /\ \A j \in 1..(i - 1) : s[j] # x

RemoveAt(s, i) == SubSeq(s, 1, i - 1) \o SubSeq(s, i + 1, Len(s))

(* list.remove(x) guarded by 'x in list': drops the first occurrence. *)
RemoveFirst(s, x) == IF x \in Range(s) THEN RemoveAt(s, FirstIndex(s, x)) ELSE s

(* Mutant: the dict is taken to have no keys. *)
Keys_none(ac) == <<>>

Keys(ac) == [i \in 1..Len(ac) |-> ac[i].user_id]

HasKey(ac, u) == \E i \in 1..Len(ac) : ac[i].user_id = u

(* Mutant: the list of the first key, whatever the user. *)
Conns_first(ac, u) == ac[1].connections

KeyIndex(ac, u) == CHOOSE i \in 1..Len(ac) : ac[i].user_id = u

Conns(ac, u) == ac[KeyIndex(ac, u)].connections

SetConns(ac, u, l) ==
    IF HasKey(ac, u)
    THEN [ac EXCEPT ![KeyIndex(ac, u)].connections = l]
    ELSE Append(ac, [user_id |-> u, connections |-> l])

(* Mutant: deleting one key empties the whole dict. *)
DelKey_all(ac, u) == <<>>

DelKey(ac, u) == RemoveAt(ac, KeyIndex(ac, u))

---------------------------------------------------------------------------
(* ConnectionManager: the synchronous part of each method.                 *)

(* Mutant: every user is reported online. *)
is_user_online_always(ac, u) == TRUE

is_user_online(ac, u) == HasKey(ac, u) /\ Len(Conns(ac, u)) > 0

(* Mutant: every connect is taken for a first one. *)
was_offline_always(ac, u) == TRUE

(* connect, line 19. *)
was_offline(ac, u) == ~HasKey(ac, u) \/ Len(Conns(ac, u)) = 0

(* Mutant: the append is done only when the key is created. *)
connect_no_append(ac, u, h) ==
    IF HasKey(ac, u) THEN ac ELSE SetConns(ac, u, <<h>>)

(* connect, lines 21-24: the registry after the append. *)
connect(ac, u, h) ==
    SetConns(ac, u, (IF HasKey(ac, u) THEN Conns(ac, u) ELSE <<>>) \o <<h>>)

(* Mutant: the emptied entry is left in the dict. *)
disconnect_keep_empty(ac, u, h) ==
    IF ~HasKey(ac, u) THEN [ac |-> ac, offline |-> 0]
    ELSE [ac |-> SetConns(ac, u, RemoveFirst(Conns(ac, u), h)), offline |-> 0]

(* Mutant: disconnect leaves the registry alone. *)
disconnect_noop(ac, u, h) == [ac |-> ac, offline |-> 0]

(* Mutant: every disconnect queues an 'offline' broadcast. *)
disconnect_always_offline(ac, u, h) ==
    IF ~HasKey(ac, u) THEN [ac |-> ac, offline |-> 1]
    ELSE LET l == RemoveFirst(Conns(ac, u), h)
         IN IF l = <<>> THEN [ac |-> DelKey(ac, u), offline |-> 1]
            ELSE [ac |-> SetConns(ac, u, l), offline |-> 1]

(* disconnect: the registry afterwards and the number of 'offline'         *)
(* broadcasts handed to asyncio.create_task.                               *)
disconnect(ac, u, h) ==
    IF ~HasKey(ac, u) THEN [ac |-> ac, offline |-> 0]
    ELSE LET l == RemoveFirst(Conns(ac, u), h)
         IN IF l = <<>> THEN [ac |-> DelKey(ac, u), offline |-> 1]
            ELSE [ac |-> SetConns(ac, u, l), offline |-> 0]

(* Mutant: the failed connections are not disconnected. *)
disconnect_none(ac, u, hs) == [ac |-> ac, offline |-> 0]

RECURSIVE disconnect_all(_, _, _)
(* send_personal_message, lines 81-82: disconnect each failed connection. *)
disconnect_all(ac, u, hs) ==
    IF hs = <<>> THEN [ac |-> ac, offline |-> 0]
    ELSE LET d == disconnect(ac, u, Head(hs))
             r == disconnect_all(d.ac, u, Tail(hs))
         IN [ac |-> r.ac, offline |-> d.offline + r.offline]


---------------------------------------------------------------------------
(* broadcast_user_status as a coroutine.  The outer loop runs over a copy  *)
(* of the dict's items, whose values are the live list objects; the inner  *)
(* loop runs over a copy of one list, taken when the outer loop reaches    *)
(* that user.  A list object whose key was deleted is empty for ever (a    *)
(* later connect makes a new list): 'stale' marks such a reference.        *)

NoTask ==
    [user_id |-> 0, status |-> "none", pc |-> "none", snapshot |-> <<>>,
     conns |-> <<>>, pending |-> 0]

(* Mutant: the broadcast is entered at once, as if it were awaited. *)
ScheduledTask_started(u, st) ==
    [user_id |-> u, status |-> st, pc |-> "sending", snapshot |-> <<>>,
     conns |-> <<>>, pending |-> 0]

(* Line 37: the coroutine handed to asyncio.create_task: it has not run. *)
ScheduledTask(u, st) ==
    [user_id |-> u, status |-> st, pc |-> "scheduled", snapshot |-> <<>>,
     conns |-> <<>>, pending |-> 0]

ListOf(ac, e) ==
    IF e.stale \/ ~HasKey(ac, e.user_id) THEN <<>> ELSE Conns(ac, e.user_id)

RECURSIVE broadcast_next_abort(_, _)
(* Mutant: a send that raised ends the broadcast. *)
broadcast_next_abort(t, ac) ==
    IF t.pending \in closed
    THEN [t EXCEPT !.pc = "done", !.pending = 0]
    ELSE IF t.conns # <<>>
    THEN [t EXCEPT !.pc = "sending", !.pending = Head(t.conns), !.conns = Tail(t.conns)]
    ELSE IF t.snapshot = <<>>
    THEN [t EXCEPT !.pc = "done", !.pending = 0]
    ELSE broadcast_next_abort([t EXCEPT !.snapshot = Tail(t.snapshot),
                                        !.conns = ListOf(ac, Head(t.snapshot)),
                                        !.pending = 0], ac)

RECURSIVE broadcast_next(_, _)
(* Lines 49-52: run the loops up to the next send_text, or to the end. *)
broadcast_next(t, ac) ==
    IF t.conns # <<>>
    THEN [t EXCEPT !.pc = "sending", !.pending = Head(t.conns), !.conns = Tail(t.conns)]
    ELSE IF t.snapshot = <<>>
    THEN [t EXCEPT !.pc = "done", !.pending = 0]
    ELSE broadcast_next([t EXCEPT !.snapshot = Tail(t.snapshot),
                                  !.conns = ListOf(ac, Head(t.snapshot))], ac)

(* Mutant: the broadcast finds nobody to send to. *)
broadcast_user_status_nobody(ac, u, st) ==
    [user_id |-> u, status |-> st, pc |-> "done", snapshot |-> <<>>,
     conns |-> <<>>, pending |-> 0]

(* Lines 42-52: build the message, copy the items, reach the first send. *)
broadcast_user_status(ac, u, st) ==
    broadcast_next(
        [user_id |-> u, status |-> st, pc |-> "sending",
         snapshot |-> [i \in 1..Len(ac) |-> [user_id |-> ac[i].user_id, stale |-> FALSE]],
         conns |-> <<>>, pending |-> 0], ac)

(* The keys a step deleted from the dict. *)
Gone(ac, ac2) == Range(Keys(ac)) \ Range(Keys(ac2))

StaleTask(t, D) ==
    [t EXCEPT !.snapshot =
        [i \in 1..Len(t.snapshot) |->
            [user_id |-> t.snapshot[i].user_id,
             stale |-> t.snapshot[i].stale \/ t.snapshot[i].user_id \in D]]]

StaleReq(r, D) ==
    IF r.pc = "pushing" /\ r.receiver \in D THEN [r EXCEPT !.stale = TRUE] ELSE r

OfflineTasks(u, n) == [i \in 1..n |-> ScheduledTask(u, "offline")]

---------------------------------------------------------------------------
(* State after start-up: nobody is connected, no request is in progress.   *)

IdleEndpoint == [pc |-> "idle", user_id |-> 0, roster |-> <<>>]

(* The coroutine has returned: its locals are gone. *)
ReturnedEndpoint == [pc |-> "done", user_id |-> 0, roster |-> <<>>]

(* conns_at_call is the receiver's list as send_personal_message found it   *)
(* at line 73; the code reads it only through the iterator.                *)
IdleRequest ==
    [pc |-> "idle", receiver |-> 0, online |-> FALSE, idx |-> 0,
     pending |-> 0, stale |-> FALSE, delivered |-> <<>>, disconnected |-> <<>>,
     conns_at_call |-> <<>>, resp |-> "none"]

(* The handler has returned its response: only the response is left. *)
ReturnedRequest(resp) == [IdleRequest EXCEPT !.pc = "done", !.resp = resp]

IdleCreate == [pc |-> "idle", participant_1 |-> 0, participant_2 |-> 0,
               conversation |-> 0]

IdleRead == [pc |-> "idle", conversation_id |-> 0, user_id |-> 0,
             messages |-> {}, response |-> 0]

Init ==
    /\ active_connections = <<>>
    /\ closed = {}
    /\ ep = [h \in Handles |-> IdleEndpoint]
    /\ bc = [h \in Handles |-> NoTask]
    /\ tasks = <<>>
    /\ req = [m \in Msgs |-> IdleRequest]
    /\ status = [m \in Msgs |-> "none"]
    /\ calls = <<>>
    /\ log = <<>>
    /\ conversations = <<>>
    /\ cm = [c \in Creates |-> IdleCreate]
    /\ gm = [g \in Reads |-> IdleRead]

(* What every step that changes the registry does to the other coroutines: *)
(* references to deleted lists go stale, scheduled broadcasts are queued.  *)
Commit(newac, u, n) ==
    /\ active_connections' = newac
    /\ tasks' = [i \in 1..Len(tasks) |->
                    StaleTask(tasks[i], Gone(active_connections, newac))]
                \o OfflineTasks(u, n)


StaleBcs(D) == [h \in Handles |-> StaleTask(bc[h], D)]

StaleReqs(D) == [m \in Msgs |-> StaleReq(req[m], D)]

---------------------------------------------------------------------------
(* websocket_endpoint: one coroutine per websocket.                        *)

Tokens ==
    {[kind |-> "none", uid |-> 0], [kind |-> "raises", uid |-> 0]}
    \cup {[kind |-> k, uid |-> i] : k \in {"local", "service"}, i \in 0..NumUsers}

(* Lines 317-330: the user id taken from the token; 0 stands for None.     *)
(* "local": decode_token_locally gave a payload carrying uid (0: no id);   *)
(* "service": the local decode failed and the auth service answered uid.   *)
token_user_id(tok) == IF tok.kind \in {"local", "service"} THEN tok.uid ELSE 0

(* Mutant: every connection attempt is accepted. *)
authenticated_always(tok, u) == TRUE

(* Mutant: any token that carries a user id is accepted. *)
authenticated_any_id(tok, u) ==
    tok.kind \in {"local", "service"} /\ tok.uid # 0

(* Lines 308-345: TRUE iff the endpoint reaches websocket.accept(). *)
authenticated(tok, u) ==
    /\ tok.kind # "none"
    /\ tok.kind # "raises"
    /\ token_user_id(tok) # 0
    /\ token_user_id(tok) = u

(* Lines 307-356.  Websockets are numbered in the order in which their     *)
(* requests arrive.  A rejected request is closed and the coroutine        *)
(* returns.  An accepted one goes on to connect, which runs up to its      *)
(* first await: the first send of the 'online' broadcast, or (no           *)
(* broadcast) send_json of line 359.  The awaits of the validation and of  *)
(* accept() touch nothing shared, so the step is taken when accept()       *)
(* returns.                                                                *)
EndpointConnect(h, u, tok) ==
    /\ ep[h].pc = "idle"
    /\ IF h = 1 THEN TRUE ELSE ep[h - 1].pc # "idle"
    /\ IF authenticated(tok, u)
       THEN LET newac == connect(active_connections, u, h)
                b == IF was_offline(active_connections, u)
                     THEN broadcast_user_status(newac, u, "online")
                     ELSE NoTask
            IN /\ Commit(newac, u, 0)
               /\ bc' = [bc EXCEPT ![h] = IF b.pc = "sending" THEN b ELSE NoTask]
               /\ ep' = [ep EXCEPT ![h].user_id = u,
                                   ![h].pc = IF b.pc = "sending" THEN "connect"
                                             ELSE "established"]
       ELSE /\ ep' = [ep EXCEPT ![h] = ReturnedEndpoint]
            /\ UNCHANGED <<active_connections, bc, tasks>>
    /\ UNCHANGED <<closed, req, status, calls, log, conversations, cm, gm>>

(* Lines 49-55 inside connect: one send of the 'online' broadcast is over  *)
(* (an exception is logged and dropped); go on to the next send, or leave  *)
(* connect and reach send_json (line 359).                                 *)
ConnectBroadcastStep(h) ==
    /\ ep[h].pc = "connect"
    /\ LET b == broadcast_next(bc[h], active_connections)
       IN /\ bc' = [bc EXCEPT ![h] = IF b.pc = "sending" THEN b ELSE NoTask]
          /\ ep' = [ep EXCEPT ![h].pc = IF b.pc = "sending" THEN "connect"
                                        ELSE "established"]
    /\ UNCHANGED <<active_connections, closed, tasks, req, status, calls, log, conversations, cm, gm>>

(* Lines 359-365 and 385-387: send_json is over.  On a closed transport it *)
(* raised, and the handler disconnects; otherwise send_online_users copies *)
(* the keys and awaits its send.                                           *)
EndpointEstablished(h) ==
    /\ ep[h].pc = "established"
    /\ IF h \in closed
       THEN LET d == disconnect(active_connections, ep[h].user_id, h)
            IN /\ Commit(d.ac, ep[h].user_id, d.offline)
               /\ bc' = StaleBcs(Gone(active_connections, d.ac))
               /\ req' = StaleReqs(Gone(active_connections, d.ac))
               /\ ep' = [ep EXCEPT ![h] = ReturnedEndpoint]
       ELSE /\ ep' = [ep EXCEPT ![h].pc = "roster",
                                ![h].roster = Keys(active_connections)]
            /\ UNCHANGED <<active_connections, bc, tasks, req>>
    /\ UNCHANGED <<closed, status, calls, log, conversations, cm, gm>>

(* Lines 63-67, 369-371: the roster send is over (a failure is logged);    *)
(* the endpoint waits in receive_text.                                     *)
EndpointRoster(h) ==
    /\ ep[h].pc = "roster"
    /\ ep' = [ep EXCEPT ![h].pc = "receive", ![h].roster = <<>>]
    /\ UNCHANGED <<active_connections, closed, bc, tasks, req, status, calls, log, conversations, cm, gm>>

(* Lines 375-383: receive_text raises WebSocketDisconnect. *)
EndpointReceive(h) ==
    /\ ep[h].pc = "receive"
    /\ h \in closed
    /\ LET d == disconnect(active_connections, ep[h].user_id, h)
       IN /\ Commit(d.ac, ep[h].user_id, d.offline)
          /\ bc' = StaleBcs(Gone(active_connections, d.ac))
          /\ req' = StaleReqs(Gone(active_connections, d.ac))
    /\ ep' = [ep EXCEPT ![h] = ReturnedEndpoint]
    /\ UNCHANGED <<closed, status, calls, log, conversations, cm, gm>>

(* The peer (or the network) closes an accepted websocket.  A close that   *)
(* arrives while accept() is pending is seen by the code after accept.     *)
ClientClose(h) ==
    /\ ep[h].pc \in {"connect", "established", "roster", "receive"}
    /\ h \notin closed
    /\ closed' = closed \cup {h}
    /\ UNCHANGED <<active_connections, ep, bc, tasks, req, status, calls, log, conversations, cm, gm>>

---------------------------------------------------------------------------
(* The detached 'offline' broadcasts of disconnect (line 37).              *)

TaskStart(i) ==
    /\ i \in 1..Len(tasks)
    /\ tasks[i].pc = "scheduled"
    /\ LET t == broadcast_user_status(active_connections, tasks[i].user_id,
                                       tasks[i].status)
       IN tasks' = IF t.pc = "sending" THEN [tasks EXCEPT ![i] = t]
                   ELSE RemoveAt(tasks, i)
    /\ UNCHANGED <<active_connections, closed, ep, bc, req, status, calls, log, conversations, cm, gm>>

TaskStep(i) ==
    /\ i \in 1..Len(tasks)
    /\ tasks[i].pc = "sending"
    /\ LET t == broadcast_next(tasks[i], active_connections)
       IN tasks' = IF t.pc = "sending" THEN [tasks EXCEPT ![i] = t]
                   ELSE RemoveAt(tasks, i)
    /\ UNCHANGED <<active_connections, closed, ep, bc, req, status, calls, log, conversations, cm, gm>>


---------------------------------------------------------------------------
(* send_message (POST /messages/): one request handler per message.        *)

(* Lines 200-208: create_message persists the message with status SENT.    *)
(* Routing reads only the receiver, so the sender is not kept.             *)
SendMessageCreate(m, r) ==
    /\ req[m].pc = "idle"
    /\ m <= MaxPosts
    /\ IF m = 1 THEN TRUE ELSE req[m - 1].pc # "idle"
    /\ req' = [req EXCEPT ![m].pc = "created", ![m].receiver = r]
    /\ status' = [status EXCEPT ![m] = "sent"]
    /\ UNCHANGED <<active_connections, closed, ep, bc, tasks, calls, log, conversations, cm, gm>>

(* Lines 209-226 and 69-76: create_message returned.  If the receiver is    *)
(* online (line 212), send_personal_message starts iterating the           *)
(* receiver's live list and awaits its first send; without the key         *)
(* (line 70) it sends nothing and update_message_status is awaited.  If    *)
(* the receiver is offline the response is returned.                       *)
SendMessageRoute(m) ==
    /\ req[m].pc = "created"
    /\ IF is_user_online(active_connections, req[m].receiver)
          /\ HasKey(active_connections, req[m].receiver)
       THEN LET l == Conns(active_connections, req[m].receiver)
            IN req' = [req EXCEPT ![m].pc = "pushing", ![m].online = TRUE,
                                  ![m].idx = 1, ![m].pending = l[1],
                                  ![m].conns_at_call = l]
       ELSE IF is_user_online(active_connections, req[m].receiver)
       THEN req' = [req EXCEPT ![m].pc = "updating", ![m].online = TRUE]
       ELSE req' = [req EXCEPT ![m] = ReturnedRequest("sent")]
    /\ UNCHANGED <<active_connections, closed, ep, bc, tasks, status, calls, log, conversations, cm, gm>>

(* Lines 74-82: one send of send_personal_message is over; on a closed     *)
(* transport it raised and the connection is noted.  The list iterator     *)
(* then reads position idx of the live list; past its end the loop stops,  *)
(* the noted connections are disconnected and update_message_status        *)
(* (line 222) is awaited.                                                  *)
send_personal_message_step(m) ==
    /\ req[m].pc = "pushing"
    /\ LET r == req[m].receiver
           h == req[m].pending
           disc == IF h \in closed THEN Append(req[m].disconnected, h)
                   ELSE req[m].disconnected
           deliv == IF h \in closed THEN req[m].delivered
                    ELSE Append(req[m].delivered, h)
           l == IF req[m].stale \/ ~HasKey(active_connections, r) THEN <<>>
                ELSE Conns(active_connections, r)
       IN IF req[m].idx + 1 <= Len(l)
          THEN /\ req' = [req EXCEPT ![m].idx = @ + 1, ![m].pending = l[req[m].idx + 1],
                                     ![m].disconnected = disc, ![m].delivered = deliv]
               /\ UNCHANGED <<active_connections, bc, tasks>>
          ELSE LET d == disconnect_all(active_connections, r, disc)
                   D == Gone(active_connections, d.ac)
               IN /\ Commit(d.ac, r, d.offline)
                  /\ bc' = StaleBcs(D)
                  /\ req' = [x \in Msgs |->
                               IF x = m
                               THEN [req[m] EXCEPT !.pc = "updating", !.pending = 0,
                                                   !.idx = 0, !.stale = FALSE,
                                                   !.conns_at_call = <<>>,
                                                   !.disconnected = disc,
                                                   !.delivered = deliv]
                               ELSE StaleReq(req[x], D)]
    /\ UNCHANGED <<closed, ep, status, calls, conversations, cm, gm>>

PersonalStep(m) == send_personal_message_step(m) /\ UNCHANGED log

(* Lines 222-226: the status is stored and the response returned. *)
UpdateStatus(m) ==
    /\ req[m].pc = "updating"
    /\ status' = [status EXCEPT ![m] = "delivered"]
    /\ req' = [req EXCEPT ![m] = ReturnedRequest("delivered")]
    /\ UNCHANGED <<active_connections, closed, ep, bc, tasks, calls, log, conversations, cm, gm>>

---------------------------------------------------------------------------
Next ==
    \/ \E h \in Handles, u \in Users, tok \in Tokens : EndpointConnect(h, u, tok)
    \/ \E h \in Handles : ConnectBroadcastStep(h)
    \/ \E h \in Handles : EndpointEstablished(h)
    \/ \E h \in Handles : EndpointRoster(h)
    \/ \E h \in Handles : EndpointReceive(h)
    \/ \E h \in Handles : ClientClose(h)
    \/ \E i \in 1..NumHandles : TaskStart(i)
    \/ \E i \in 1..NumHandles : TaskStep(i)
    \/ \E m \in Msgs, r \in Users : SendMessageCreate(m, r)
    \/ \E m \in Msgs : SendMessageRoute(m)
    \/ \E m \in Msgs : PersonalStep(m)
    \/ \E m \in Msgs : UpdateStatus(m)

Spec == Init /\ [][Next]_vars

(* A step of a coroutine that is ready to run: its awaited send or        *)
(* receive is over (a send returns or raises), or it is a task handed to   *)
(* asyncio.create_task that has not started.                               *)
Progress ==
    \/ \E h \in Handles : ConnectBroadcastStep(h)
    \/ \E h \in Handles : EndpointEstablished(h)
    \/ \E h \in Handles : EndpointRoster(h)
    \/ \E h \in Handles : EndpointReceive(h)
    \/ \E i \in 1..NumHandles : TaskStart(i)
    \/ \E i \in 1..NumHandles : TaskStep(i)
    \/ \E m \in Msgs : SendMessageRoute(m)
    \/ \E m \in Msgs : PersonalStep(m)
    \/ \E m \in Msgs : UpdateStatus(m)

(* The event loop keeps running ready coroutines.  Clients are free never  *)
(* to connect, to close or to post.                                        *)
Fairness == WF_vars(Progress)

FairSpec == Spec /\ Fairness

---------------------------------------------------------------------------
(* The manager driven directly, one call at a time, by a caller that may   *)
(* pass any user and any of its websockets, also one it passed before (a   *)
(* unit test with websockets whose sends return at once).                  *)

ManagerConnect(u, h) ==
    /\ Len(calls) < MaxCalls
    /\ active_connections' = connect(active_connections, u, h)
    /\ calls' = Append(calls, [op |-> "connect", user_id |-> u, handle |-> h,
                               broadcasts |-> IF was_offline(active_connections, u)
                                              THEN 1 ELSE 0])
    /\ UNCHANGED <<closed, ep, bc, tasks, req, status, log, conversations, cm, gm>>

ManagerDisconnect(u, h) ==
    /\ Len(calls) < MaxCalls
    /\ LET d == disconnect(active_connections, u, h)
       IN /\ active_connections' = d.ac
          /\ tasks' = tasks \o OfflineTasks(u, d.offline)
          /\ calls' = Append(calls, [op |-> "disconnect", user_id |-> u, handle |-> h,
                                     broadcasts |-> d.offline])
    /\ UNCHANGED <<closed, ep, bc, req, status, log, conversations, cm, gm>>

NextManager ==
    \/ \E u \in Users, h \in CallHandles : ManagerConnect(u, h)
    \/ \E u \in Users, h \in CallHandles : ManagerDisconnect(u, h)

SpecManager == Init /\ [][NextManager]_vars


---------------------------------------------------------------------------
(* Properties.                                                             *)

Registered(ac, u, h) == HasKey(ac, u) /\ h \in Range(Conns(ac, u))

RegisteredAnywhere(ac, h) == \E i \in 1..Len(ac) : h \in Range(ac[i].connections)

NumScheduled(ts) == Cardinality({i \in 1..Len(ts) : ts[i].pc = "scheduled"})

RECURSIVE NetRegistered(_, _)
(* The handles of u registered and not yet deregistered by a sequence of   *)
(* calls, counted from the calls alone.                                    *)
NetRegistered(cs, u) ==
    IF cs = <<>> THEN {}
    ELSE LET before == NetRegistered(SubSeq(cs, 1, Len(cs) - 1), u)
             c == cs[Len(cs)]
         IN IF c.user_id # u THEN before
            ELSE IF c.op = "connect" THEN before \cup {c.handle}
            ELSE before \ {c.handle}

DistinctHandles(cs, u) ==
    \A i, j \in 1..Len(cs) :
        (cs[i].op = "connect" /\ cs[j].op = "connect" /\ cs[i].user_id = u
         /\ cs[j].user_id = u /\ cs[i].handle = cs[j].handle) => i = j

\* C1: after any sequence of connect and disconnect calls that registers
\* distinct handles for a user, is_user_online(user) is true iff at least one
\* handle of the user is registered and not yet deregistered; deregistrations
\* of unknown or already removed handles count for nothing.
C1_OnlineIffNetRegistered ==
    \A u \in Users :
        DistinctHandles(calls, u) =>
            (is_user_online(active_connections, u) <=> NetRegistered(calls, u) # {})

\* C1 witness: two handles were registered, one of them was deregistered twice,
\* and the user is still online through the other.
C1_Witness ==
    /\ Len(calls) = 4
    /\ calls[1].op = "connect" /\ calls[1].user_id = 1 /\ calls[1].handle = 1
    /\ calls[2].op = "connect" /\ calls[2].user_id = 1 /\ calls[2].handle = 2
    /\ calls[3].op = "disconnect" /\ calls[3].user_id = 1 /\ calls[3].handle = 1
    /\ calls[4].op = "disconnect" /\ calls[4].user_id = 1 /\ calls[4].handle = 1
    /\ is_user_online(active_connections, 1)

\* C2: at every suspension point every key of active_connections maps to a
\* non-empty list (and occurs once), so a user is a key iff it has a handle.
C2_NoEmptyEntry ==
    /\ \A i \in 1..Len(active_connections) : active_connections[i].connections # <<>>
    /\ \A i, j \in 1..Len(active_connections) :
          active_connections[i].user_id = active_connections[j].user_id => i = j

\* C2 witness: a user's last handle has been deregistered (its 'offline'
\* broadcast is queued) while a send_personal_message and another user's
\* entry are live.
C2_Witness ==
    /\ \E i \in 1..Len(tasks) : tasks[i].pc = "scheduled"
    /\ Len(active_connections) = 1
    /\ \E m \in Msgs : req[m].pc = "pushing"
    /\ \E h \in Handles : ep[h].pc = "done" /\ h \in closed

\* C3: a connect call starts an 'online' broadcast for its user iff the user
\* had no handle before the call, and starts no other broadcast.
C3_OnlineBroadcastIffFirst ==
    [][\A h \in Handles :
          (ep[h].pc = "idle" /\ ep'[h].pc \in {"connect", "established"}) =>
             /\ (ep'[h].pc = "connect")
                   <=> ~is_user_online(active_connections, ep'[h].user_id)
             /\ ep'[h].pc = "connect" =>
                   /\ bc'[h].status = "online"
                   /\ bc'[h].user_id = ep'[h].user_id
                   /\ bc'[h].pc = "sending"
             /\ ep'[h].pc = "established" => bc'[h] = NoTask
             /\ \A g \in Handles \ {h} : bc'[g] = bc[g]
             /\ tasks' = tasks]_vars

\* C3 witness: a second connect of the same user has gone through, without a
\* broadcast, while the first connect is still suspended in its broadcast.
C3_Witness ==
    \E h, g \in Handles :
        /\ h # g
        /\ ep[h].pc = "connect" /\ bc[h].status = "online"
        /\ ep[g].pc \in {"established", "roster"} /\ ep[g].user_id = ep[h].user_id
        /\ bc[g] = NoTask

\* C4: a step whose disconnect calls take a user from online to offline queues
\* exactly one 'offline' broadcast, for that user; any other step queues none.
C4_OfflineBroadcastIffLast ==
    [][/\ \A u \in Users :
            (is_user_online(active_connections, u)
             /\ ~is_user_online(active_connections', u)) =>
                /\ Len(tasks') = Len(tasks) + 1
                /\ tasks'[Len(tasks')] = ScheduledTask(u, "offline")
                /\ NumScheduled(tasks') = NumScheduled(tasks) + 1
       /\ (\A u \in Users : is_user_online(active_connections, u)
              => is_user_online(active_connections', u))
            => NumScheduled(tasks') <= NumScheduled(tasks) /\ Len(tasks') <= Len(tasks)]_vars

\* C4 witness: one disconnect left its user online (nothing queued), a later
\* one removed the user's last handle (one broadcast queued).
C4_Witness ==
    /\ Cardinality({h \in Handles : ep[h].pc = "done" /\ h \in closed}) = 2
    /\ Len(tasks) = 1 /\ tasks[1].pc = "scheduled"
    /\ Len(active_connections) = 1
    /\ tasks[1].user_id # active_connections[1].user_id


\* C5: routing a message whose receiver has no registry entry returns at once
\* with status "sent": no send is attempted, the registry and every broadcast
\* are left as they were, and the persisted status stays "sent".
C5_OfflineReceiverQueued ==
    /\ [][\A m \in Msgs :
             (req[m].pc = "created" /\ req'[m] # req[m]
              /\ ~HasKey(active_connections, req[m].receiver)) =>
                /\ req'[m].pc = "done" /\ req'[m].resp = "sent"
                /\ req'[m].pending = 0 /\ req'[m].delivered = <<>>
                /\ status'[m] = "sent"
                /\ UNCHANGED <<active_connections, bc, tasks, closed>>]_vars
    /\ [](\A m \in Msgs : (req[m].pc = "done" /\ req[m].resp = "sent") => status[m] = "sent")

\* C5 witness: a message has been answered "sent" while another user is online.
C5_Witness ==
    \E m \in Msgs :
        /\ req[m].pc = "done" /\ req[m].resp = "sent" /\ status[m] = "sent"
        /\ Len(active_connections) = 1
        /\ \E h \in Handles : ep[h].pc = "receive" /\ h \notin closed

\* C6: when send_personal_message returns and none of its sends failed, every
\* handle then registered under the receiver has received the envelope exactly
\* once, and the handler goes on to store "delivered".
C6_AllHandlesReceive ==
    [][\A m \in Msgs :
          (req[m].pc = "pushing" /\ req'[m].pc = "updating"
           /\ req'[m].disconnected = <<>>) =>
             \A h \in Handles :
                 Registered(active_connections', req[m].receiver, h)
                    => Count(req'[m].delivered, h) = 1]_vars

\* C7: the status of a message becomes "delivered" only if at least one send of
\* its live push succeeded.
C7_DeliveredOnlyIfPushed ==
    [][\A m \in Msgs :
          (status[m] # "delivered" /\ status'[m] = "delivered")
             => req[m].delivered # <<>>]_vars

\* C8: once send_personal_message has returned, no handle whose send failed in
\* that call is in the registry; and if the call's cleanup took the receiver
\* offline, exactly one 'offline' broadcast for the receiver was queued.
C8_FailedHandlesRemoved ==
    /\ [](\A m \in Msgs : req[m].pc = "updating" =>
             \A h \in Range(req[m].disconnected) :
                 ~RegisteredAnywhere(active_connections, h))
    /\ [][\A m \in Msgs :
             (req[m].pc = "pushing" /\ req'[m].pc = "updating"
              /\ is_user_online(active_connections, req[m].receiver)
              /\ ~is_user_online(active_connections', req[m].receiver)) =>
                /\ ~HasKey(active_connections', req[m].receiver)
                /\ tasks'[Len(tasks')] = ScheduledTask(req[m].receiver, "offline")
                /\ NumScheduled(tasks') = NumScheduled(tasks) + 1]_vars

\* C8 witness: the call returned after a failed send on the receiver's only
\* handle: the entry is gone, the broadcast is queued, and the endpoint of that
\* handle has not yet noticed the closure.
C8_Witness ==
    \E m \in Msgs, h \in Handles :
        /\ req[m].pc = "updating" /\ req[m].disconnected = <<h>>
        /\ ep[h].pc = "receive"
        /\ \E i \in 1..Len(tasks) : tasks[i].pc = "scheduled"
        /\ active_connections = <<>>

C10_DuplicateRegisterCountedOnce ==
    \A u \in Users, h \in CallHandles :
        (/\ Len(calls) = 3
         /\ calls[1].op = "connect" /\ calls[1].user_id = u /\ calls[1].handle = h
         /\ calls[2].op = "connect" /\ calls[2].user_id = u /\ calls[2].handle = h
         /\ calls[3].op = "disconnect" /\ calls[3].user_id = u /\ calls[3].handle = h)
        => /\ ~is_user_online(active_connections, u)
           /\ ~HasKey(active_connections, u)
           /\ Len(tasks) = 1

\* C11: when a send_personal_message call returns, every handle that was
\* registered under the receiver when the call started, is still registered
\* and has an open transport (so it was registered during the whole call and
\* its send succeeds) has received the envelope exactly once, whatever other
\* handles of the receiver were registered or deregistered during the call.
C11_EveryStableHandleReceives ==
    [][\A m \in Msgs :
          (req[m].pc = "pushing" /\ req'[m].pc = "updating") =>
             \A h \in Range(req[m].conns_at_call) :
                 (Registered(active_connections', req[m].receiver, h)
                  /\ h \notin closed)
                    => Count(req'[m].delivered, h) = 1]_vars

RECURSIVE Remaining(_, _)
(* The handles a broadcast has still to send to, in order, if the registry *)
(* stays as it is: the rest of the copied list, then the lists of the      *)
(* users left in its snapshot.                                             *)
Remaining(t, ac) ==
    IF t.snapshot = <<>> THEN t.conns
    ELSE t.conns \o Remaining([t EXCEPT !.conns = ListOf(ac, Head(t.snapshot)),
                                        !.snapshot = Tail(t.snapshot)], ac)

(* Broadcast t, resumed after a send, became t2: it went on to the first   *)
(* of the remaining handles, or ended because none was left.               *)
WentOn(t, t2, ac) ==
    IF Remaining(t, ac) = <<>> THEN t2.pc \in {"none", "done"}
    ELSE /\ t2.pc = "sending"
         /\ t2.pending = Head(Remaining(t, ac))
         /\ Remaining(t2, ac) = Tail(Remaining(t, ac))

(* The detached broadcast at position i is the one that took this step. *)
TaskStepped(i) ==
    /\ tasks[i].pc = "sending"
    /\ UNCHANGED active_connections
    /\ \/ tasks' = RemoveAt(tasks, i)
       \/ /\ Len(tasks') = Len(tasks)
          /\ tasks'[i] # tasks[i]
          /\ \A j \in 1..Len(tasks) : j # i => tasks'[j] = tasks[j]

C13_FailedBroadcastHandleRemoved ==
    /\ [][\A h \in Handles :
             (bc[h].pc = "sending" /\ bc'[h].pc # "sending"
              /\ bc[h].pending \in closed)
                => ~RegisteredAnywhere(active_connections', bc[h].pending)]_vars
    /\ [][\A i \in 1..Len(tasks) :
             (TaskStepped(i) /\ tasks' = RemoveAt(tasks, i)
              /\ tasks[i].pending \in closed)
                => ~RegisteredAnywhere(active_connections', tasks[i].pending)]_vars

(* The registry without the handles of R, emptied entries deleted. *)
Without(ac, R) ==
    SelectSeq([i \in 1..Len(ac) |->
                  [user_id |-> ac[i].user_id,
                   connections |-> SelectSeq(ac[i].connections,
                                             LAMBDA x : x \notin R)]],
              LAMBDA e : e.connections # <<>>)

(* The handles a step takes out of the registry. *)
Deregistered ==
    {h \in Handles : RegisteredAnywhere(active_connections, h)
                     /\ ~RegisteredAnywhere(active_connections', h)}

\* C14: under fair scheduling the registry is again and again free of handles
\* whose transport is closed, and a handle once out of the registry stays out:
\* every registered handle whose transport closes is eventually deregistered.
\* An endpoint that returns after a closure leaves its handle deregistered;
\* and every step that deregisters handles, or in which an endpoint returns,
\* leaves the registry as it was but for one removal of each handle it
\* deregisters (a handle already removed by send_personal_message is not
\* removed again).
C14_ClosedEventuallyDeregistered ==
    /\ []<>(\A h \in closed : ~RegisteredAnywhere(active_connections, h))
    /\ [][\A h \in Handles :
             (ep[h].pc # "idle" /\ ~RegisteredAnywhere(active_connections, h))
                => ~RegisteredAnywhere(active_connections', h)]_vars
    /\ [][\A h \in Handles :
             (ep[h].pc \in {"established", "receive"} /\ ep'[h].pc = "done")
                => h \in closed /\ ~RegisteredAnywhere(active_connections', h)]_vars
    /\ [][(Deregistered # {}
           \/ \E h \in Handles : ep[h].pc \in {"established", "receive"}
                                    /\ ep'[h].pc = "done")
             => /\ active_connections' = Without(active_connections, Deregistered)
                /\ Deregistered \subseteq closed]_vars

\* C14 witness: all three paths have run: one endpoint returned from the
\* failed connection_established send, one from receive, and the third
\* handle was deregistered by send_personal_message while its endpoint still
\* waits in receive.
C14_Witness ==
    \E m \in Msgs :
        /\ req[m].pc = "updating"
        /\ req[m].disconnected # <<>>
        /\ \A h \in Range(req[m].disconnected) : ep[h].pc = "receive"
        /\ Cardinality({h \in Handles : ep[h].pc = "done" /\ h \in closed}) = 2
        /\ active_connections = <<>>

\* C15: whenever a broadcast or a send_personal_message starts a send, the
\* handle it sends to is in the registry at that moment.
C15_SendOnlyToRegistered ==
    /\ [][\A h \in Handles :
             (bc'[h].pc = "sending" /\ bc'[h].pending # bc[h].pending)
                => RegisteredAnywhere(active_connections', bc'[h].pending)]_vars
    /\ [][\A i \in 1..Len(tasks) :
             (/\ UNCHANGED active_connections
              /\ Len(tasks') = Len(tasks)
              /\ tasks'[i].pc = "sending"
              /\ tasks'[i].pending # tasks[i].pending)
                => RegisteredAnywhere(active_connections', tasks'[i].pending)]_vars
    /\ [][\A m \in Msgs :
             (req'[m].pc = "pushing" /\ req'[m].pending # req[m].pending)
                => Registered(active_connections', req'[m].receiver,
                              req'[m].pending)]_vars

\* C16: an 'online' broadcast runs only inside the connect of a handle, it is
\* for that handle's user and its first send starts in the step that appended
\* the handle to the registry; an 'offline' broadcast for u is created, not
\* yet sending, only by a step that removes u's entry from the registry, and
\* no other broadcast is an 'offline' one: its sends come after the removal.
C16_PresenceEventsAfterRegistryChange ==
    /\ [](\A h \in Handles :
             bc[h].pc # "none" =>
                /\ bc[h].pc = "sending" /\ bc[h].status = "online"
                /\ ep[h].pc = "connect" /\ bc[h].user_id = ep[h].user_id)
    /\ [][\A h \in Handles :
             (bc[h].pc = "none" /\ bc'[h].pc = "sending") =>
                /\ ~RegisteredAnywhere(active_connections, h)
                /\ Registered(active_connections', bc'[h].user_id, h)]_vars
    /\ [](\A i \in 1..Len(tasks) :
             tasks[i].status = "offline" /\ tasks[i].pc \in {"scheduled", "sending"})
    /\ [][Len(tasks') > Len(tasks) =>
             /\ Len(tasks') = Len(tasks) + 1
             /\ LET t == tasks'[Len(tasks')]
                IN /\ t.pc = "scheduled" /\ t.pending = 0
                   /\ HasKey(active_connections, t.user_id)
                   /\ ~HasKey(active_connections', t.user_id)]_vars
    /\ [][\A i \in 1..Len(tasks) :
             (TaskStepped(i) \/ (tasks[i].pc = "scheduled" /\ tasks' # tasks
                                 /\ UNCHANGED active_connections))
                => Len(tasks') <= Len(tasks)]_vars

\* C16 witness: an 'offline' broadcast is sending while the 'online'
\* broadcast of a registered handle is sending too.
C16_Witness ==
    /\ \E i \in 1..Len(tasks) : tasks[i].pc = "sending" /\ tasks[i].status = "offline"
    /\ \E h \in Handles :
          /\ bc[h].pc = "sending" /\ bc[h].status = "online"
          /\ Registered(active_connections, bc[h].user_id, h)

\* C17: a step whose disconnect removes a user's entry ends with the caller
\* past the call (the endpoint has returned, send_personal_message has left
\* its cleanup) and with the 'offline' broadcast only queued: no send of it
\* has started, and no send of any other coroutine started or ended in that
\* step.  An endpoint that has seen its transport closed can always take
\* that step, whatever sends are in flight.
C17_DisconnectDoesNotWait ==
    /\ [][\A u \in Users :
             (HasKey(active_connections, u) /\ ~HasKey(active_connections', u)) =>
                /\ Len(tasks') = Len(tasks) + 1
                /\ tasks'[Len(tasks')] = ScheduledTask(u, "offline")
                /\ tasks'[Len(tasks')].pc = "scheduled"
                /\ tasks'[Len(tasks')].pending = 0
                /\ \A i \in 1..Len(tasks) :
                      tasks'[i].pending = tasks[i].pending /\ tasks'[i].pc = tasks[i].pc
                /\ \A g \in Handles :
                      bc'[g].pending = bc[g].pending /\ bc'[g].pc = bc[g].pc
                /\ \/ \E h \in Handles : ep[h].user_id = u /\ ep'[h].pc = "done"
                                           /\ ep[h].pc \in {"established", "receive"}
                   \/ \E m \in Msgs : req[m].receiver = u /\ req[m].pc = "pushing"
                                        /\ req'[m].pc = "updating"]_vars
    /\ [](\A h \in Handles :
             (ep[h].pc \in {"established", "receive"} /\ h \in closed)
                => ENABLED ((EndpointEstablished(h) \/ EndpointReceive(h))
                            /\ ep'[h].pc = "done"))

\* C17 witness: an endpoint has returned from the disconnect that took its
\* user offline, the 'offline' broadcast has not started, and another
\* coroutine is still waiting for a send to a peer.
C17_Witness ==
    \E h \in Handles :
        /\ ep[h].pc = "done" /\ h \in closed
        /\ \E i \in 1..Len(tasks) : tasks[i].pc = "scheduled"
        /\ \/ \E g \in Handles : bc[g].pc = "sending" /\ bc[g].pending # g
           \/ \E m \in Msgs : req[m].pc = "pushing"

(* Where the detached broadcast at position i is after a step that did not *)
(* end it: a broadcast that ends leaves the list and the later ones move   *)
(* up.                                                                     *)
NewIndex(i) ==
    IF Len(tasks') < Len(tasks)
    THEN LET j == CHOOSE j \in 1..Len(tasks) : tasks' = RemoveAt(tasks, j)
         IN IF i < j THEN i ELSE i - 1
    ELSE i

(* The detached broadcast at position i ends in this step. *)
TaskEnds(i) == UNCHANGED active_connections /\ tasks' = RemoveAt(tasks, i)

(* The handles a broadcast is sending to or has still to send to. *)
ToAttempt(t, ac) == {t.pending} \cup Range(Remaining(t, ac))

\* C18: under fair scheduling every 'offline' broadcast that was queued is
\* started and runs to its end.  When it starts, every handle in the registry
\* is among those it is sending to or has still to send to; from then on a
\* handle it has still to send to, and that stays registered, remains so
\* until the broadcast sends to it; and the broadcast ends only when no
\* handle is left.  So every handle registered from the moment the user went
\* offline until the broadcast reaches it is sent the event.
C18_OfflineEventuallyAttempted ==
    /\ []<>(tasks = <<>>)
    /\ [][\A i \in 1..Len(tasks) :
             (/\ tasks[i].pc = "scheduled"
              /\ UNCHANGED active_connections
              /\ TaskEnds(i) \/ (Len(tasks') = Len(tasks) /\ tasks'[i] # tasks[i])) =>
                IF TaskEnds(i) THEN active_connections = <<>>
                ELSE /\ tasks'[i].pc = "sending"
                     /\ tasks'[i].status = "offline"
                     /\ tasks'[i].user_id = tasks[i].user_id
                     /\ \A g \in Handles :
                           RegisteredAnywhere(active_connections, g)
                              => g \in ToAttempt(tasks'[i], active_connections)]_vars
    /\ [][\A i \in 1..Len(tasks) :
             tasks[i].pc = "sending" =>
                IF TaskEnds(i) THEN Remaining(tasks[i], active_connections) = <<>>
                ELSE /\ NewIndex(i) \in 1..Len(tasks')
                     /\ tasks'[NewIndex(i)].user_id = tasks[i].user_id
                     /\ \A g \in Range(Remaining(tasks[i], active_connections)) :
                           RegisteredAnywhere(active_connections', g)
                              => g \in ToAttempt(tasks'[NewIndex(i)],
                                                 active_connections')]_vars

\* C18 witness: the 'offline' broadcast of a user who has no entry is sending
\* to a registered handle with an open transport, after a send to another
\* handle, and has one more handle to go.
C18_Witness ==
    \E i \in 1..Len(tasks) :
        /\ tasks[i].pc = "sending" /\ tasks[i].status = "offline"
        /\ ~HasKey(active_connections, tasks[i].user_id)
        /\ RegisteredAnywhere(active_connections, tasks[i].pending)
        /\ tasks[i].pending \notin closed
        /\ Remaining(tasks[i], active_connections) # <<>>

\* C19: an endpoint sends the roster at most once, right after its
\* connection_established frame went out, hence after its handle was
\* registered; the roster lists, in the order of the registry, exactly the
\* users that have a handle at the moment it is taken, the connecting user
\* among them.
C19_RosterIsRegistryKeys ==
    /\ [][\A h \in Handles :
             (ep'[h].pc = "roster" /\ ep[h].pc # "roster") =>
                /\ ep[h].pc = "established"
                /\ h \notin closed
                /\ UNCHANGED active_connections
                /\ Registered(active_connections, ep[h].user_id, h)
                /\ Len(ep'[h].roster) = Len(active_connections)
                /\ \A i \in 1..Len(active_connections) :
                      ep'[h].roster[i] = active_connections[i].user_id
                /\ \A u \in Users :
                      u \in Range(ep'[h].roster) <=> is_user_online(active_connections, u)
                /\ ep[h].user_id \in Range(ep'[h].roster)]_vars
    /\ [][\A h \in Handles :
             (ep[h].pc = "established" /\ ep'[h] # ep[h] /\ h \notin closed)
                => ep'[h].pc = "roster"]_vars
    /\ [][\A h \in Handles :
             ep[h].pc \in {"roster", "receive", "done"}
                => ep'[h].pc \in {"receive", "done"} \/ ep'[h] = ep[h]]_vars

\* C19 witness: user 2, connecting after user 1, is being sent [1, 2].
C19_Witness ==
    /\ ep[2].pc = "roster" /\ ep[2].user_id = 2 /\ ep[2].roster = <<1, 2>>
    /\ ep[1].user_id = 1 /\ Registered(active_connections, 1, 1)

\* C20: a send_message whose message is stored always goes on to its
\* response, "sent" or "delivered" and equal to the stored status, whatever
\* its sends did; and the step in which send_personal_message returns takes
\* out of the registry exactly the handles whose send failed in that call,
\* closes no transport, ends no endpoint, touches no send of another
\* coroutine and queues only 'offline' broadcasts for the receiver.
C20_FailuresContained ==
    /\ [](\A m \in Msgs :
             /\ req[m].pc = "done" =>
                   (req[m].resp \in {"sent", "delivered"} /\ status[m] = req[m].resp)
             /\ req[m].pc \in {"created", "pushing", "updating"} => status[m] = "sent")
    /\ [][\A m \in Msgs :
             /\ (req[m].pc = "pushing" /\ req'[m].pc # "pushing") =>
                   /\ req'[m].pc = "updating"
                   /\ req'[m].receiver = req[m].receiver
                   /\ active_connections' =
                         Without(active_connections, Range(req'[m].disconnected))
                   /\ Range(req'[m].disconnected) \subseteq closed
                   /\ UNCHANGED <<closed, ep, status>>
                   /\ \A g \in Handles : bc'[g].pending = bc[g].pending
                                          /\ bc'[g].conns = bc[g].conns
                   /\ \A i \in 1..Len(tasks) : tasks'[i].pending = tasks[i].pending
                                                /\ tasks'[i].conns = tasks[i].conns
                   /\ \A i \in (Len(tasks) + 1)..Len(tasks') :
                         tasks'[i] = ScheduledTask(req[m].receiver, "offline")
             /\ (req[m].pc = "updating" /\ req'[m] # req[m]) =>
                   (req'[m].pc = "done" /\ req'[m].resp = "delivered")]_vars

\* C20 witness: the response has been returned after a send failed: the
\* failed handle was taken out by the call (its endpoint has not yet seen
\* the closure), another handle is registered and open, its endpoint
\* waiting in receive.
C20_Witness ==
    \E m \in Msgs, h, g \in Handles :
        /\ req[m].pc = "done" /\ req[m].resp = "delivered"
        /\ h \in closed /\ ep[h].pc = "receive"
        /\ ~RegisteredAnywhere(active_connections, h)
        /\ g \notin closed /\ ep[g].pc = "receive"
        /\ Registered(active_connections, ep[h].user_id, g)

(* What the claim calls a failed authentication of a request for user u. *)
AuthFails(tok, u) ==
    \/ tok.kind = "none"
    \/ tok.kind = "raises"
    \/ tok.uid = 0
    \/ tok.uid # u

\* C21: a connection attempt with no token, with a token that yields no user
\* id, with a token of another user, or whose validation raises, ends the
\* endpoint at once: the registry, every broadcast, every request and every
\* transport are as before, and the endpoint holds no roster.
C21_AuthFailureNeverRegisters ==
    /\ [][\A h \in Handles, u \in Users, tok \in Tokens :
             (EndpointConnect(h, u, tok) /\ AuthFails(tok, u)) =>
                /\ ep'[h] = ReturnedEndpoint
                /\ ep'[h].roster = <<>>
                /\ ~RegisteredAnywhere(active_connections', h)
                /\ UNCHANGED <<active_connections, bc, tasks, req, closed, status>>
                /\ \A g \in Handles \ {h} : ep'[g] = ep[g]]_vars
    /\ [](\A h \in Handles :
             (ep[h].pc = "done" /\ ep[h].user_id = 0 /\ h \notin closed)
                => ~RegisteredAnywhere(active_connections, h))

\* C21 witness: the first attempt was rejected and left nothing behind; a
\* later one registered its user.
C21_Witness ==
    /\ ep[1].pc = "done" /\ 1 \notin closed
    /\ ep[2].pc = "receive" /\ ep[2].user_id = 1
    /\ active_connections = <<[user_id |-> 1, connections |-> <<2>>]>>

(* The user handle g is registered under; 0 if it is not registered. *)
UserOf(ac, g) ==
    IF RegisteredAnywhere(ac, g)
    THEN ac[CHOOSE i \in 1..Len(ac) : g \in Range(ac[i].connections)].user_id
    ELSE 0

\* C22: a connect call is never suspended on a send to a handle of another
\* user, so that it runs to completion even if that send never does.
C22_RegisterNotStalledByPeer ==
    \A h \in Handles :
        ep[h].pc = "connect" =>
            UserOf(active_connections, bc[h].pending) \in {0, ep[h].user_id}

\* C24: the connect that brings a user online starts a broadcast that has
\* every handle then in the registry ahead of it, the new handle included; a
\* handle it has still to send to, and that stays registered, remains ahead of
\* it until it is sent the event; and connect returns, so that the
\* connection_established frame and the roster can follow, only when no
\* handle is left: the new handle is sent its own 'online' event before its
\* roster.
C24_OnlineBroadcastIncludesSelf ==
    /\ [][\A h \in Handles, u \in Users, tok \in Tokens :
             (/\ EndpointConnect(h, u, tok)
              /\ authenticated(tok, u)
              /\ was_offline(active_connections, u)) =>
                /\ bc'[h].pc = "sending"
                /\ bc'[h].status = "online" /\ bc'[h].user_id = u
                /\ \A g \in Handles :
                      RegisteredAnywhere(active_connections', g)
                         => g \in ToAttempt(bc'[h], active_connections')
                /\ h \in ToAttempt(bc'[h], active_connections')]_vars
    /\ [][\A h \in Handles :
             bc[h].pc = "sending" =>
                IF bc'[h].pc = "sending"
                THEN \A g \in Range(Remaining(bc[h], active_connections)) :
                        RegisteredAnywhere(active_connections', g)
                           => g \in ToAttempt(bc'[h], active_connections')
                ELSE /\ Remaining(bc[h], active_connections) = <<>>
                     /\ ep'[h].pc = "established"]_vars
    /\ [](\A h \in Handles :
             (ep[h].pc \in {"established", "roster", "receive"})
                => bc[h].pc = "none")

\* C24 witness: the broadcast of a new user's connect has sent to the handle
\* of a peer and is now sending to the new handle itself; no roster yet.
C24_Witness ==
    \E h \in Handles :
        /\ ep[h].pc = "connect" /\ bc[h].pending = h /\ ep[h].roster = <<>>
        /\ h \notin closed
        /\ \E g \in Handles : g # h /\ g \notin closed
                                /\ RegisteredAnywhere(active_connections, g)
                                /\ UserOf(active_connections, g) # ep[h].user_id

\* C26: when an endpoint handler deregisters its handle after the handle was
\* already removed (by the cleanup of a failed send) and its user has another
\* handle registered, the registry is left as it is, the user stays online
\* and no 'offline' broadcast is scheduled.
C26_LateDeregisterHarmless ==
    [][\A h \in Handles :
          (/\ ep[h].pc \in {"established", "receive"}
           /\ ep'[h].pc = "done"
           /\ ~Registered(active_connections, ep[h].user_id, h)
           /\ HasKey(active_connections, ep[h].user_id)) =>
              /\ active_connections' = active_connections
              /\ is_user_online(active_connections', ep[h].user_id)
              /\ tasks' = tasks]_vars

\* C26 witness: handle 1 of user 1 failed a push and was removed by the
\* cleanup, which took the user offline; the user is back with handle 2, and
\* the handler of handle 1 has returned.
C26_Witness ==
    /\ req[1].pc = "updating" /\ req[1].disconnected = <<1>>
    /\ ep[1].pc = "done" /\ 1 \in closed
    /\ ep[2].pc = "receive" /\ 2 \notin closed
    /\ active_connections = <<[user_id |-> 1, connections |-> <<2>>]>>
    /\ Len(tasks) = 1 /\ tasks[1].user_id = 1

ListOfUser(ac, b) == IF HasKey(ac, b) THEN Conns(ac, b) ELSE <<>>

OthersUntouched(a) ==
    \A b \in Users \ {a} :
        ListOfUser(active_connections', b) = ListOfUser(active_connections, b)

\* C28: a connect or disconnect for user a, and a send_personal_message to a
\* with its cleanup, leave the handle list of every other user as it was, in
\* content and in order; the steps of broadcast_user_status and
\* send_online_users leave the whole registry as it was.
C28_OtherUsersUntouched ==
    [][/\ \A h \in Handles, u \in Users, tok \in Tokens :
             EndpointConnect(h, u, tok) => OthersUntouched(u)
       /\ \A h \in Handles :
             (EndpointEstablished(h) \/ EndpointReceive(h))
                => /\ OthersUntouched(ep[h].user_id)
                   /\ (h \notin closed => UNCHANGED active_connections)
       /\ \A m \in Msgs : PersonalStep(m) => OthersUntouched(req[m].receiver)
       /\ \A h \in Handles :
             (ConnectBroadcastStep(h) \/ EndpointRoster(h))
                => UNCHANGED active_connections
       /\ \A i \in 1..NumHandles :
             (TaskStart(i) \/ TaskStep(i)) => UNCHANGED active_connections]_vars

\* C28 witness: user 1's only handle was deregistered while user 2 had two
\* handles registered, which are still there in their order.
C28_Witness ==
    /\ ep[1].pc = "done" /\ closed = {1}
    /\ Len(tasks) = 1 /\ tasks[1].user_id = 1
    /\ active_connections = <<[user_id |-> 2, connections |-> <<2, 3>>]>>

\* C29: a handle becomes registered under user u only in the step of its
\* own endpoint, requested for u with a token that was supplied, from which
\* a user id was extracted (local decode or auth service), equal to u.
C29_RegisteredOnlyIfAuthenticated ==
    [][\A h \in Handles, u \in Users :
          (Registered(active_connections', u, h)
              /\ ~Registered(active_connections, u, h)) =>
             /\ \E tok \in Tokens : EndpointConnect(h, u, tok)
             /\ \A tok \in Tokens :
                   EndpointConnect(h, u, tok) =>
                      /\ tok.kind \in {"local", "service"}
                      /\ tok.uid # 0
                      /\ tok.uid = u]_vars

\* C29 witness: the first request was rejected and left nothing behind; the
\* second, for user 2, was accepted and its handle is registered under 2.
C29_Witness ==
    /\ ep[1].pc = "done" /\ 1 \notin closed
    /\ ep[2].pc = "receive" /\ ep[2].user_id = 2 /\ 2 \notin closed
    /\ active_connections = <<[user_id |-> 2, connections |-> <<2>>]>>

\* C25: presence views converge.  An 'offline' event about user u is in
\* flight to an open, registered handle p of another user, which has had its
\* roster, while u is online, only if an 'online' broadcast about u has
\* still to send to p: otherwise 'offline' is the last event p receives about
\* a user who is online.
C25_PresenceViewsConverge ==
    \A i \in 1..Len(tasks), p \in Handles :
        (/\ tasks[i].pc = "sending"
         /\ tasks[i].status = "offline"
         /\ tasks[i].pending = p
         /\ p \notin closed
         /\ ep[p].pc = "receive"
         /\ RegisteredAnywhere(active_connections, p)
         /\ UserOf(active_connections, p) # tasks[i].user_id
         /\ is_user_online(active_connections, tasks[i].user_id)) =>
            \E h \in Handles :
                /\ bc[h].pc = "sending"
                /\ bc[h].user_id = tasks[i].user_id
                /\ p \in ToAttempt(bc[h], active_connections)

---------------------------------------------------------------------------
(* send_personal_message driven directly: a caller registers websockets    *)
(* with connect and routes messages with send_personal_message, possibly   *)
(* several at a time; log is what the caller and the websockets see, in    *)
(* the order in which it happens.  A message is received when its send     *)
(* returns.  A request at pc "updating" has returned from the call.        *)

Event(e, m, h) == [ev |-> e, msg |-> m, handle |-> h]

(* Mutant: the call is reported as returned when it is made. *)
call_events_detached(m, returned) == <<Event("call", m, 0), Event("return", m, 0)>>

(* Lines 69-70: the call, and its return at once for a user without key. *)
call_events(m, returned) ==
    <<Event("call", m, 0)>> \o (IF returned THEN <<Event("return", m, 0)>> ELSE <<>>)

(* Lines 73-82: a send that returned, and the return of the call. *)
step_events(m, h, ok, returned) ==
    (IF ok THEN <<Event("recv", m, h)>> ELSE <<>>)
        \o (IF returned THEN <<Event("return", m, 0)>> ELSE <<>>)

RouterCall(m, r) ==
    /\ req[m].pc = "idle"
    /\ IF m = 1 THEN TRUE ELSE req[m - 1].pc # "idle"
    /\ IF HasKey(active_connections, r)
       THEN LET l == Conns(active_connections, r)
            IN req' = [req EXCEPT ![m].pc = "pushing", ![m].receiver = r,
                                  ![m].idx = 1, ![m].pending = l[1],
                                  ![m].conns_at_call = l]
       ELSE req' = [req EXCEPT ![m].pc = "updating", ![m].receiver = r]
    /\ log' = log \o call_events(m, ~HasKey(active_connections, r))
    /\ UNCHANGED <<active_connections, closed, ep, bc, tasks, status, calls,
                   conversations, cm, gm>>

RouterStep(m) ==
    /\ send_personal_message_step(m)
    /\ log' = log \o step_events(m, req[m].pending, req[m].pending \notin closed,
                                 req'[m].pc = "updating")

NextRouter ==
    \/ \E u \in Users, h \in CallHandles : ManagerConnect(u, h)
    \/ \E m \in Msgs, r \in Users : RouterCall(m, r)
    \/ \E m \in Msgs : RouterStep(m)

SpecRouter == Init /\ [][NextRouter]_vars

---------------------------------------------------------------------------
Happened(e, m) == \E i \in 1..Len(log) : log[i].ev = e /\ log[i].msg = m

FirstAt(e, m) == CHOOSE i \in 1..Len(log) :
                    /\ log[i].ev = e /\ log[i].msg = m
                    /\ \A j \in 1..(i - 1) : ~(log[j].ev = e /\ log[j].msg = m)

IsRecvAt(h, x) == x.ev = "recv" /\ x.handle = h

ReceivedAt(h) == LET r == SelectSeq(log, LAMBDA x : IsRecvAt(h, x))
                 IN [i \in 1..Len(r) |-> r[i].msg]

Serialized(m1, m2) ==
    /\ Happened("call", m1) /\ Happened("call", m2) /\ Happened("return", m1)
    /\ FirstAt("return", m1) < FirstAt("call", m2)

\* C23: if two send_personal_message calls for the same recipient are
\* serialized (the second is made after the first returned), no handle
\* receives the second call's envelope before the first call's; when the
\* calls overlap, handles may receive the two envelopes in different orders
\* (the witness).
C23_SerializedCallsKeepOrder ==
    \A m1, m2 \in Msgs :
        (req[m1].receiver = req[m2].receiver /\ Serialized(m1, m2)) =>
            \A i, j \in 1..Len(log) :
                (/\ log[i].ev = "recv" /\ log[i].msg = m1
                 /\ log[j].ev = "recv" /\ log[j].msg = m2
                 /\ log[i].handle = log[j].handle) => i < j

\* C23 witness: two overlapping calls for user 1, whose handles 1 and 2
\* received the two envelopes in opposite orders.
C23_Witness ==
    /\ req[1].receiver = 1 /\ req[2].receiver = 1
    /\ ~Serialized(1, 2)
    /\ ReceivedAt(1) = <<1, 2>>
    /\ ReceivedAt(2) = <<2, 1>>

---------------------------------------------------------------------------
(* services/message_service.py: create_message, one coroutine per request, *)
(* each with its own database session.  A statement is atomic in the       *)
(* database; the coroutine is suspended at every await of the session.     *)
(* The conversations table has a primary key and no unique constraint on   *)
(* the pair of participants (models.py:67-70).                             *)

Min(a, b) == IF a <= b THEN a ELSE b

Max(a, b) == IF a <= b THEN b ELSE a

(* Lines 39-46: the ids of the rows the select returns. *)
SelectConversation(rows, p1, p2) ==
    {rows[i].id : i \in {j \in 1..Len(rows) : /\ rows[j].participant_1_id = p1
                                               /\ rows[j].participant_2_id = p2}}

(* Lines 35-47 and 79-83: the select of get_or_create_conversation has     *)
(* returned.  scalar_one_or_none raises on more than one row, and the      *)
(* request fails; with one row that conversation is used and the message   *)
(* is added; with none a conversation is added and commit is awaited.      *)
CreateMessageSelect(c, a, b) ==
    /\ cm[c].pc = "idle"
    /\ IF c = 1 THEN TRUE ELSE cm[c - 1].pc # "idle"
    /\ LET p1 == Min(a, b)
           p2 == Max(a, b)
           found == SelectConversation(conversations, p1, p2)
       IN cm' = [cm EXCEPT ![c] =
                    [pc |-> IF Cardinality(found) > 1 THEN "failed"
                            ELSE IF found = {} THEN "insert" ELSE "message",
                     participant_1 |-> p1, participant_2 |-> p2,
                     conversation |-> IF Cardinality(found) = 1
                                      THEN CHOOSE x \in found : TRUE ELSE 0]]
    /\ UNCHANGED <<active_connections, closed, ep, bc, tasks, req, status, calls,
                   log, conversations, gm>>

(* Lines 50-58: the commit stores the new conversation, which gets the     *)
(* next id.                                                                *)
CreateMessageInsert(c) ==
    /\ cm[c].pc = "insert"
    /\ conversations' = Append(conversations,
                               [id |-> Len(conversations) + 1,
                                participant_1_id |-> cm[c].participant_1,
                                participant_2_id |-> cm[c].participant_2])
    /\ cm' = [cm EXCEPT ![c].pc = "message",
                        ![c].conversation = Len(conversations) + 1]
    /\ UNCHANGED <<active_connections, closed, ep, bc, tasks, req, status, calls,
                   log, gm>>

(* Lines 86-99: the message is stored under the conversation. *)
CreateMessageCommit(c) ==
    /\ cm[c].pc = "message"
    /\ cm' = [cm EXCEPT ![c].pc = "done"]
    /\ UNCHANGED <<active_connections, closed, ep, bc, tasks, req, status, calls,
                   log, conversations, gm>>

NextConversations ==
    \/ \E c \in Creates, a, b \in Users : CreateMessageSelect(c, a, b)
    \/ \E c \in Creates : CreateMessageInsert(c)
    \/ \E c \in Creates : CreateMessageCommit(c)

SpecConversations == Init /\ [][NextConversations]_vars

---------------------------------------------------------------------------
\* C30: the conversations table never holds two rows for the same pair of
\* participants, and every row has the smaller id first.
C30_OneConversationPerPair ==
    /\ \A i \in 1..Len(conversations) :
          conversations[i].participant_1_id <= conversations[i].participant_2_id
    /\ \A i, j \in 1..Len(conversations) :
          (/\ conversations[i].participant_1_id = conversations[j].participant_1_id
           /\ conversations[i].participant_2_id = conversations[j].participant_2_id)
             => i = j

---------------------------------------------------------------------------
(* get_messages (GET /messages/{conversation_id}): one request handler per *)
(* request, run next to create_message requests of users of the local      *)
(* users table.  A stored message is named by the create_message request   *)
(* that stored it; the order of the returned list is not kept.             *)

(* Lines 86-99: the messages stored under a conversation. *)
MessagesOf(conversation_id) ==
    {c \in Creates : cm[c].pc = "done" /\ cm[c].conversation = conversation_id}

(* Lines 176-179: the rows with the id, at most one (primary key). *)
ConversationById(rows, conversation_id) ==
    {rows[i] : i \in {j \in 1..Len(rows) : rows[j].id = conversation_id}}

(* Mutant: every user passes the participant check. *)
is_participant_anyone(conversation, user_id) == TRUE

(* Line 184. *)
is_participant(conversation, user_id) ==
    user_id \in {conversation.participant_1_id, conversation.participant_2_id}

(* Lines 176-185 and 292-293: the select of the conversation has returned. *)
(* Without a row, or for a user who is not a participant, ValueError is    *)
(* raised and get_messages answers 403; otherwise the select of the        *)
(* messages is awaited.                                                    *)
GetMessagesVerify(g, conversation_id, user_id) ==
    /\ gm[g].pc = "idle"
    /\ IF g = 1 THEN TRUE ELSE gm[g - 1].pc # "idle"
    /\ LET found == ConversationById(conversations, conversation_id)
           ok == /\ found # {}
                 /\ is_participant(CHOOSE x \in found : TRUE, user_id)
       IN gm' = [gm EXCEPT ![g] =
                    [pc |-> IF ok THEN "fetch" ELSE "done",
                     conversation_id |-> conversation_id, user_id |-> user_id,
                     messages |-> {}, response |-> IF ok THEN 0 ELSE 403]]
    /\ UNCHANGED <<active_connections, closed, ep, bc, tasks, req, status, calls,
                   log, conversations, cm>>

(* Lines 188-196 and 289-290: the select of the messages has returned and  *)
(* the list is the response.                                               *)
GetMessagesFetch(g) ==
    /\ gm[g].pc = "fetch"
    /\ gm' = [gm EXCEPT ![g].pc = "done",
                        ![g].messages = MessagesOf(gm[g].conversation_id),
                        ![g].response = 200]
    /\ UNCHANGED <<active_connections, closed, ep, bc, tasks, req, status, calls,
                   log, conversations, cm>>

NextMessages ==
    \/ \E c \in Creates, a, b \in DbUsers : CreateMessageSelect(c, a, b)
    \/ \E c \in Creates : CreateMessageInsert(c)
    \/ \E c \in Creates : CreateMessageCommit(c)
    \/ \E g \in Reads, i \in 1..(NumCreates + 1), u \in DbUsers :
          GetMessagesVerify(g, i, u)
    \/ \E g \in Reads : GetMessagesFetch(g)

SpecMessages == Init /\ [][NextMessages]_vars

---------------------------------------------------------------------------
ParticipantOf(conversation_id, user_id) ==
    \E i \in 1..Len(conversations) :
        /\ conversations[i].id = conversation_id
        /\ user_id \in {conversations[i].participant_1_id,
                        conversations[i].participant_2_id}

\* C31: a get_messages request is answered with messages only if the
\* requesting user is a participant of the conversation asked for, and then
\* only with messages of that conversation; a request by a user who is not
\* a participant, or for a conversation that does not exist, is answered
\* 403 with no message.
C31_MessagesOnlyToParticipants ==
    /\ [](\A g \in Reads :
             /\ (gm[g].pc = "fetch" \/ gm[g].response = 200 \/ gm[g].messages # {})
                   => ParticipantOf(gm[g].conversation_id, gm[g].user_id)
             /\ \A c \in gm[g].messages :
                   /\ cm[c].conversation = gm[g].conversation_id
                   /\ gm[g].user_id \in {cm[c].participant_1, cm[c].participant_2}
             /\ gm[g].response = 403 => gm[g].messages = {})
    /\ [][\A g \in Reads :
             (gm[g].pc = "idle" /\ gm'[g].pc # "idle"
                 /\ ~ParticipantOf(gm'[g].conversation_id, gm'[g].user_id)) =>
                 /\ gm'[g].pc = "done"
                 /\ gm'[g].response = 403
                 /\ gm'[g].messages = {}]_vars

\* C31 witness: user 3 asked for the conversation of users 1 and 2, which
\* holds a message, and was answered 403.
C31_Witness ==
    /\ conversations = <<[id |-> 1, participant_1_id |-> 1, participant_2_id |-> 2]>>
    /\ MessagesOf(1) # {}
    /\ gm[1] = [pc |-> "done", conversation_id |-> 1, user_id |-> 3,
                messages |-> {}, response |-> 403]

============================================================================
